---- MODULE Spec2Model ----
(***************************************************************************)
(* Model of src/main.py: the freelancer job pipeline run by lambda_handler *)
(* (fetch -> filter -> store lookup -> score -> draft -> record -> alert,  *)
(* and the zero-match summary).  Every call that leaves the process (a     *)
(* marketplace page request, a store read or write, an AI invocation, a    *)
(* Telegram send) is one step, and each may fail, which aborts the run.    *)
(***************************************************************************)
EXTENDS Integers, Sequences, FiniteSets, TLC

(***************************************************************************)
(* JSON values as the marketplace returns them.  A value carries its type  *)
(* in t; a key that is not in a dict is Absent, a JSON null is None.       *)
(***************************************************************************)
Absent == [t |-> "absent", v |-> 0]
None == [t |-> "null", v |-> 0]
Str(s) == [t |-> "str", v |-> s]
Num(n) == [t |-> "num", v |-> n]
Bool(b) == [t |-> "bool", v |-> b]
Obj(d) == [t |-> "obj", v |-> d]

\* dict.get(key): None when the key is absent.
get(d, k) == IF d[k].t = "absent" THEN None ELSE d[k]

\* dict.get(key, default)
get_default(d, k, default) == IF d[k].t = "absent" THEN default ELSE d[k]

\* Python truthiness of a JSON value.
truthy(x) ==
    CASE x.t = "absent" -> FALSE
      [] x.t = "null" -> FALSE
      [] x.t = "str" -> Len(x.v) > 0
      [] x.t = "num" -> x.v # 0
      [] x.t = "bool" -> x.v
      [] x.t = "obj" -> \E k \in DOMAIN x.v : x.v[k].t # "absent"

\* x or default
or_else(x, default) == IF truthy(x) THEN x ELSE default

\* The empty dicts that `project.get("budget") or {}` and
\* `project.get("owner") or {}` fall back to.
EmptyBudget == Obj([minimum |-> Absent])
EmptyOwner == Obj([payment_verified |-> Absent])

(***************************************************************************)
(* Text is a sequence of characters; lower() maps each character.          *)
(***************************************************************************)
lower_char(c) == IF c = "P" THEN "p" ELSE IF c = "Y" THEN "y" ELSE c

lower(s) == [j \in 1..Len(s) |-> lower_char(s[j])]

\* k in s, for Python strings.
contains(s, k) ==
    \E j \in 0..(Len(s) - Len(k)) : SubSeq(s, j + 1, j + Len(k)) = k

(***************************************************************************)
(* Configuration (main.py 23-33).                                          *)
(***************************************************************************)
Unset == "<unset>"

RequiredAtImport ==
    {"JOB_KEYWORDS", "MIN_BUDGET", "AI_SCORE_THRESHOLD", "YOUR_PROFILE_SUMMARY"}

RequiredVars ==
    RequiredAtImport \cup {"FL_ACCESS_TOKEN", "TELEGRAM_BOT_TOKEN", "TELEGRAM_CHAT_ID"}

EnvVars == RequiredVars \cup {"REQUIRE_PAYMENT_VERIFIED"}

KEYWORDS == {<<"p", "y">>}
MIN_BUDGET == 100
SCORE_THRESHOLD == 70
MAX_PAGES == 5

lower_flag(s) == IF s = "TRUE" THEN "true" ELSE s

\* os.environ.get("REQUIRE_PAYMENT_VERIFIED", "true").lower() == "true"
REQUIRE_PAYMENT_VERIFIED(env) ==
    lower_flag(IF env["REQUIRE_PAYMENT_VERIFIED"] = Unset
               THEN "true" ELSE env["REQUIRE_PAYMENT_VERIFIED"]) = "true"

(***************************************************************************)
(* passes_filters (main.py 94-114).                                        *)
(***************************************************************************)
keyword_match(project) ==
    LET title == lower(or_else(get(project, "title"), Str(<<>>)).v)
        description == lower(or_else(get(project, "description"), Str(<<>>)).v)
    IN  \E k \in KEYWORDS : contains(title, k) \/ contains(description, k)

\* A minimum equal to MIN_BUDGET rejected: <= in place of <.
budget_ok_strict(project) ==
    LET budget == or_else(get(project, "budget"), EmptyBudget).v
    IN  ~(get(budget, "minimum").t = "null" \/ budget["minimum"].v <= MIN_BUDGET)

budget_ok(project) ==
    LET budget == or_else(get(project, "budget"), EmptyBudget).v
    IN  ~(get(budget, "minimum").t = "null" \/ budget["minimum"].v < MIN_BUDGET)

payment_ok(project, env) ==
    LET owner == or_else(get(project, "owner"), EmptyOwner).v
        payment_verified == get_default(owner, "payment_verified", Bool(FALSE))
    IN  ~(REQUIRE_PAYMENT_VERIFIED(env) /\ ~truthy(payment_verified))

passes_filters(project, env) ==
    IF ~keyword_match(project) THEN FALSE
    ELSE IF ~budget_ok(project) THEN FALSE
    ELSE IF ~payment_ok(project, env) THEN FALSE
    ELSE TRUE

\* format_posted_time (main.py 186-192): "Unknown" for a missing, null or
\* zero timestamp, a formatted time otherwise.
format_posted_time(project) ==
    IF ~truthy(get(project, "submitdate")) THEN "Unknown" ELSE "formatted"

\* str(project["id"])
str(id) == ToString(id)

(***************************************************************************)
(* Postings the marketplace serves.                                        *)
(***************************************************************************)
Posting(id, title, description, minimum, payment_verified, submitdate) ==
    [id |-> id, title |-> title, description |-> description,
     budget |-> Obj([minimum |-> minimum]),
     owner |-> Obj([payment_verified |-> payment_verified]),
     submitdate |-> submitdate]

\* A complete posting that passes the filter.
Complete(id) ==
    Posting(id, Str(<<"P", "y">>), Str(<<"g", "o">>), Num(MIN_BUDGET),
            Bool(TRUE), Num(1))

\* A complete posting whose budget minimum is below MIN_BUDGET.
LowBudget(id) ==
    Posting(id, Str(<<"P", "y">>), Str(<<"g", "o">>), Num(MIN_BUDGET - 1),
            Bool(TRUE), Num(1))

\* A posting with no "title" key whose description matches a keyword.
NoTitle(id) ==
    Posting(id, Absent, Str(<<"P", "y">>), Num(MIN_BUDGET + 1),
            Bool(TRUE), Absent)

Ids == {1, 2}
Keys == {str(id) : id \in Ids}

Catalogue == {Complete(1), Complete(2), LowBudget(1), NoTitle(2)}

\* The most postings the marketplace holds in one run.
MaxFetched == 3

\* Sequences over S of length at most n.
SeqsUpTo(S, n) == UNION {[1..m -> S] : m \in 0..n}

\* What the scorer's response parses to: a numeric score, or no usable
\* response (transport error, text that is not JSON, JSON without "score").
Scores == {SCORE_THRESHOLD - 1, SCORE_THRESHOLD, SCORE_THRESHOLD + 1}

(***************************************************************************)
(* State.                                                                  *)
(*   environ  os.environ                                                   *)
(*   module   whether main.py has been imported                            *)
(*   table    the items of the DynamoDB table freelancer_jobs              *)
(*   run      the locals of each invocation of lambda_handler, with the    *)
(*            external calls it made (log), the messages it delivered      *)
(*            (outbox), the scores the AI gave (scored) and the keys the   *)
(*            table held when it started (start_keys)                      *)
(*   hist     history across runs: successful put_item calls per key,      *)
(*            the keys whose latest score was below the threshold, and     *)
(*            the per-job alerts attempted per key                         *)
(***************************************************************************)
VARIABLES environ, module, table, run, hist

vars == <<environ, module, table, run, hist>>

\* Invocations of lambda_handler that may exist at once.
Slots == {1, 2}

\* The scheduler starts one invocation at a time, the next one after the last
\* has returned or raised: a single slot is ever in use.
Scheduled == {1}

\* What a run that starts right after another one, against the same postings
\* and the same scores, remembers of that one: its fetched list, counters
\* and written keys and, when it aborted at a job, the position of the job
\* and the call that failed.
NoPrev ==
    [projects |-> <<>>, fetched |-> 0, passed |-> 0, put |-> {}, at |-> 0, op |-> ""]

Idle ==
    [pc |-> "idle", page |-> 0, projects |-> <<>>, i |-> 0,
     total_fetched |-> 0, passed_filters |-> 0, shortlisted |-> 0,
     score |-> 0, error |-> "", log |-> <<>>, outbox |-> <<>>,
     scored |-> {}, start_keys |-> {}, again |-> FALSE, retry |-> FALSE,
     prev |-> NoPrev]

FullEnv == [n \in EnvVars |-> IF n = "REQUIRE_PAYMENT_VERIFIED" THEN Unset ELSE "set"]

InitWith(envs) ==
    /\ environ \in envs
    /\ module = "unloaded"
    /\ table = {}
    /\ run = [r \in Slots |-> Idle]
    /\ hist = [puts |-> [k \in Keys |-> 0], low |-> {}, alerts |-> [k \in Keys |-> 0]]

\* Every way of leaving required variables unset, with
\* REQUIRE_PAYMENT_VERIFIED at its default.
Envs == {e \in [EnvVars -> {"set", Unset}] : e["REQUIRE_PAYMENT_VERIFIED"] = Unset}

Init == InitWith(Envs)

\* Module import (main.py 23-30): os.environ[...] raises KeyError for an
\* unset variable, and the import fails.
Import ==
    /\ module = "unloaded"
    /\ module' = IF \E n \in RequiredAtImport : environ[n] = Unset
                  THEN "import_error" ELSE "loaded"
    /\ UNCHANGED <<environ, table, run, hist>>

\* An external call of the current run.
Event(op, i, ok) == [op |-> op, i |-> i, ok |-> ok]

Running(r) == run[r].pc \notin {"idle", "returned", "raised"}

\* The run aborts on an uncaught exception.
Raise(l, error) == [l EXCEPT !.pc = "raised", !.error = error]

\* continue: on to the next project.
Continue(l) == [l EXCEPT !.pc = "for", !.i = @ + 1, !.score = 0]

Logged(l, op, ok) ==
    [l EXCEPT !.log = Append(@, Event(op, IF op = "request" THEN l.page ELSE l.i, ok))]

\* The positions (for a page request, the pages) at which the run made the
\* call op, failed calls included.
Tried(l, op) == {l.log[n].i : n \in {m \in 1..Len(l.log) : l.log[m].op = op}}

\* Those at which the call went through.
Done(l, op) ==
    {l.log[n].i : n \in {m \in 1..Len(l.log) : l.log[m].op = op /\ l.log[m].ok}}

project_id(l) == str(l.projects[l.i].id)

\* Keys recorded by the run.
PutKeys(l) == {str(l.projects[i].id) : i \in Done(l, "put_item")}

(***************************************************************************)
(* lambda_handler is invoked (main.py 197).  A run that follows a          *)
(* completed one may be served the same postings and the same scores       *)
(* (again).                                                                *)
(***************************************************************************)
\* The call at which an aborted run raised: the failed call its log ends
\* with, or the construction of the Item when no call failed.
FailedOp(l) ==
    IF l.log # <<>> /\ ~l.log[Len(l.log)].ok THEN l.log[Len(l.log)].op ELSE "Item"

\* The run aborted while it processed the job at position l.i.
AbortedAtJob(l) == l.pc = "raised" /\ l.i \in 1..Len(l.projects)

StartRun(r) ==
    /\ module = "loaded"
    /\ ~Running(r)
    /\ \E again \in BOOLEAN :
          /\ again => run[r].pc = "returned"
          /\ run' = [run EXCEPT ![r] =
                [Idle EXCEPT
                    !.pc = "fetch_all_projects",
                    !.again = again,
                    !.start_keys = {it.project_id : it \in table},
                    !.scored = IF again THEN run[r].scored ELSE {},
                    !.prev = IF again
                             THEN [NoPrev EXCEPT
                                      !.projects = run[r].projects,
                                      !.fetched = run[r].total_fetched,
                                      !.passed = run[r].passed_filters,
                                      !.put = PutKeys(run[r])]
                             ELSE NoPrev]]
    /\ UNCHANGED <<environ, module, table, hist>>

\* lambda_handler is invoked after a run that aborted at a job, and is served
\* the same postings and, for the postings that run had scored, the same
\* scores (retry).
RetryRun(r) ==
    /\ module = "loaded"
    /\ AbortedAtJob(run[r])
    /\ ~run[r].again /\ ~run[r].retry
    /\ run' = [run EXCEPT ![r] =
            [Idle EXCEPT
                !.pc = "fetch_all_projects",
                !.retry = TRUE,
                !.start_keys = {it.project_id : it \in table},
                !.scored = run[r].scored,
                !.prev = [projects |-> run[r].projects,
                          fetched |-> run[r].total_fetched,
                          passed |-> run[r].passed_filters,
                          put |-> PutKeys(run[r]),
                          at |-> run[r].i,
                          op |-> FailedOp(run[r])]]]
    /\ UNCHANGED <<environ, module, table, hist>>

\* fetch_all_projects reads the access token (main.py 58-59).
FetchInit(r) ==
    /\ run[r].pc = "fetch_all_projects"
    /\ run' = [run EXCEPT ![r] =
            IF environ["FL_ACCESS_TOKEN"] = Unset
            THEN Raise(@, "KeyError: 'FL_ACCESS_TOKEN'")
            ELSE [@ EXCEPT !.pc = "request"]]
    /\ UNCHANGED <<environ, module, table, hist>>

\* fetch_all_projects returns: total_fetched = len(projects) (main.py 89, 198-202).
Fetched(l) ==
    [l EXCEPT !.pc = "for", !.i = 1, !.page = 0, !.total_fetched = Len(l.projects)]

\* A loop that goes round once more: range(MAX_PAGES + 1).
LastPage_one_more(page) == page >= MAX_PAGES

\* The loop of fetch_all_projects ends after MAX_PAGES requests.
LastPage(page) == page + 1 >= MAX_PAGES

\* A fetch that swallows the failure of a later page and returns the pages
\* it has.
FetchPage_keep_partial(r, S, n) ==
    /\ run[r].pc = "request"
    /\ \E ok \in BOOLEAN :
       \E projects \in IF run[r].again \/ run[r].retry
                        THEN {SubSeq(run[r].prev.projects, Len(run[r].projects) + 1,
                                     Len(run[r].prev.projects))}
                        ELSE SeqsUpTo(S, n - Len(run[r].projects)) :
          run' = [run EXCEPT ![r] =
                LET l == Logged(@, "request", ok) IN
                IF ~ok THEN (IF l.page = 0 THEN Raise(l, "URLError") ELSE Fetched(l))
                ELSE IF projects = <<>> THEN Fetched(l)
                ELSE LET m == [l EXCEPT !.projects = @ \o projects,
                                        !.page = @ + 1]
                     IN  IF LastPage(l.page) THEN Fetched(m) ELSE m]
    /\ UNCHANGED <<environ, module, table, hist>>

\* One page request (main.py 61-87).  S is the set of postings the
\* marketplace may serve and n the most it holds.
FetchPage(r, S, n) ==
    /\ run[r].pc = "request"
    /\ \E ok \in BOOLEAN :
       \E projects \in IF run[r].again \/ run[r].retry
                        THEN {SubSeq(run[r].prev.projects, Len(run[r].projects) + 1,
                                     Len(run[r].prev.projects))}
                        ELSE SeqsUpTo(S, n - Len(run[r].projects)) :
          run' = [run EXCEPT ![r] =
                LET l == Logged(@, "request", ok) IN
                IF ~ok THEN Raise(l, "URLError")
                ELSE IF projects = <<>> THEN Fetched(l)
                ELSE LET m == [l EXCEPT !.projects = @ \o projects,
                                        !.page = @ + 1]
                     IN  IF LastPage(l.page) THEN Fetched(m) ELSE m]
    /\ UNCHANGED <<environ, module, table, hist>>

\* A lookup under a key that no item has (the key not converted as the
\* written one is).
get_item_other_key(items, key) == {it \in items : it.project_id = "#" \o key}

\* "Item" in table.get_item(Key={"project_id": project_id})
get_item(items, key) == {it \in items : it.project_id = key}

\* table.put_item(Item=item): creates the item or replaces the one with its key.
put_item(items, item) == (items \ get_item(items, item.project_id)) \cup {item}

\* The item lambda_handler writes (main.py 228-235).
Item(l) ==
    [project_id |-> project_id(l), title |-> l.projects[l.i]["title"],
     status |-> "shortlisted", ai_score |-> l.score, source |-> "freelancer"]

\* The per-job alert (main.py 239-244) and the run summary (main.py 250-254).
Alert(l) ==
    [kind |-> "alert", project_id |-> project_id(l), score |-> l.score,
     fetched |-> 0, passed |-> 0]

Summary(l) ==
    [kind |-> "summary", project_id |-> "", score |-> 0,
     fetched |-> l.total_fetched, passed |-> l.passed_filters]

\* The failure of the request raised only after the message went out.
send_telegram_message_raise_late(l, op, message, delivered) ==
    IF delivered THEN [Logged(l, op, TRUE) EXCEPT !.outbox = Append(@, message)]
    ELSE Raise([Logged(l, op, TRUE) EXCEPT !.outbox = Append(@, message)], "URLError")

\* send_telegram_message (main.py 40-52) reads the bot token and the chat id,
\* then posts the message; delivered says whether urlopen succeeded.
send_telegram_message(l, op, message, delivered) ==
    IF environ["TELEGRAM_BOT_TOKEN"] = Unset
    THEN Raise(Logged(l, op, FALSE), "KeyError: 'TELEGRAM_BOT_TOKEN'")
    ELSE IF environ["TELEGRAM_CHAT_ID"] = Unset
    THEN Raise(Logged(l, op, FALSE), "KeyError: 'TELEGRAM_CHAT_ID'")
    ELSE IF ~delivered THEN Raise(Logged(l, op, FALSE), "URLError")
    ELSE [Logged(l, op, TRUE) EXCEPT !.outbox = Append(@, message)]

\* The record written before the drafter is invoked.
shortlist_steps_record_first == <<"put_item", "draft_proposal", "send_alert">>

\* The alert sent before the record is written.
shortlist_steps_alert_first == <<"draft_proposal", "send_alert", "put_item">>

\* The statements of the loop body for a job at or above the threshold, in
\* the order of main.py 221-245.
shortlist_steps == <<"draft_proposal", "put_item", "send_alert">>

\* On to the statement after step, or to the next project after the last.
After(l, step) ==
    LET n == CHOOSE m \in 1..Len(shortlist_steps) : shortlist_steps[m] = step
    IN  IF n = Len(shortlist_steps) THEN Continue(l)
        ELSE [l EXCEPT !.pc = shortlist_steps[n + 1]]

\* The summary decided on the passed_filters counter.
summary_due_passed(l) == l.passed_filters = 0

\* shortlisted == 0 (main.py 247)
summary_due(l) == l.shortlisted = 0

\* The head of the loop over the projects, with the filter (main.py 204-209),
\* and the end of the loop (main.py 247, 257).
ForEach(r) ==
    /\ run[r].pc = "for"
    /\ run' = [run EXCEPT ![r] =
            LET l == run[r] IN
            IF l.i > Len(l.projects)
            THEN [l EXCEPT !.pc = IF summary_due(l)
                                  THEN "send_summary" ELSE "returned"]
            ELSE IF ~passes_filters(l.projects[l.i], environ)
            THEN Continue(l)
            ELSE [l EXCEPT !.passed_filters = @ + 1, !.pc = "get_item"]]
    /\ UNCHANGED <<environ, module, table, hist>>

\* The store lookup (main.py 211-212).
GetItem(r) ==
    /\ run[r].pc = "get_item"
    /\ \E ok \in BOOLEAN :
          run' = [run EXCEPT ![r] =
                LET l == Logged(@, "get_item", ok) IN
                IF ~ok THEN Raise(l, "ClientError")
                ELSE IF get_item(table, project_id(l)) # {} THEN Continue(l)
                ELSE [l EXCEPT !.pc = "score_job"]]
    /\ UNCHANGED <<environ, module, table, hist>>

\* The comparison the wrong way round.
above_threshold(score) == score > SCORE_THRESHOLD

\* A score equal to the threshold rejected.
below_or_equal_threshold(score) == score <= SCORE_THRESHOLD

\* score < SCORE_THRESHOLD
below_threshold(score) == score < SCORE_THRESHOLD

\* score_job and the threshold (main.py 214-220).  The response is a score,
\* or no usable response, which raises.
ScoreJob(r) ==
    /\ run[r].pc = "score_job"
    /\ \E ok \in BOOLEAN :
       \E score \in {s \in Scores : \A p \in run[r].scored : p[1] = run[r].i => p[2] = s} :
          LET l == Logged(run[r], "score_job", ok) IN
          IF ~ok
          THEN /\ run' = [run EXCEPT ![r] = Raise(l, "ScoreError")]
               /\ hist' = hist
          ELSE /\ run' = [run EXCEPT ![r] =
                    LET m == [l EXCEPT !.score = score,
                                       !.scored = @ \cup {<<l.i, score>>}]
                    IN  IF below_threshold(score) THEN Continue(m)
                        ELSE [m EXCEPT !.shortlisted = @ + 1,
                                       !.pc = shortlist_steps[1]]]
               /\ hist' = [hist EXCEPT !.low =
                    IF score < SCORE_THRESHOLD THEN @ \cup {project_id(l)}
                    ELSE @ \ {project_id(l)}]
    /\ UNCHANGED <<environ, module, table>>

\* draft_proposal and format_posted_time (main.py 221-225).
DraftProposal(r) ==
    /\ run[r].pc = "draft_proposal"
    /\ \E ok \in BOOLEAN :
          run' = [run EXCEPT ![r] =
                LET l == Logged(@, "draft_proposal", ok) IN
                IF ~ok THEN Raise(l, "ClientError")
                ELSE After(l, "draft_proposal")]
    /\ UNCHANGED <<environ, module, table, hist>>

\* The record (main.py 227-236): project["title"] raises KeyError when the
\* posting has no "title" key, before put_item is called.
PutItem(r) ==
    /\ run[r].pc = "put_item"
    /\ \E ok \in BOOLEAN :
          LET l == run[r] IN
          IF l.projects[l.i]["title"].t = "absent"
          THEN /\ run' = [run EXCEPT ![r] = Raise(l, "KeyError: 'title'")]
               /\ UNCHANGED <<table, hist>>
          ELSE IF ~ok
          THEN /\ run' = [run EXCEPT ![r] =
                    Raise(Logged(l, "put_item", FALSE), "ClientError")]
               /\ UNCHANGED <<table, hist>>
          ELSE /\ run' = [run EXCEPT ![r] =
                    After(Logged(l, "put_item", TRUE), "put_item")]
               /\ table' = put_item(table, Item(l))
               /\ hist' = [hist EXCEPT !.puts[project_id(l)] = @ + 1]
    /\ UNCHANGED <<environ, module>>

\* The per-job alert (main.py 238-245).
SendAlert(r) ==
    /\ run[r].pc = "send_alert"
    /\ \E delivered \in BOOLEAN :
          run' = [run EXCEPT ![r] =
                LET l == send_telegram_message(@, "alert", Alert(@), delivered)
                IN  IF l.pc = "raised" THEN l ELSE After(l, "send_alert")]
    /\ hist' = [hist EXCEPT !.alerts[project_id(run[r])] = @ + 1]
    /\ UNCHANGED <<environ, module, table>>

\* The zero-match summary and the return (main.py 247-264).
SendSummary(r) ==
    /\ run[r].pc = "send_summary"
    /\ \E delivered \in BOOLEAN :
          run' = [run EXCEPT ![r] =
                LET l == send_telegram_message(@, "summary", Summary(@), delivered)
                IN  IF l.pc = "raised" THEN l ELSE [l EXCEPT !.pc = "returned"]]
    /\ UNCHANGED <<environ, module, table, hist>>

\* lambda_handler, one step of the invocation r.
lambda_handler(r, S, n) ==
    \/ FetchInit(r)
    \/ FetchPage(r, S, n)
    \/ ForEach(r)
    \/ GetItem(r)
    \/ ScoreJob(r)
    \/ DraftProposal(r)
    \/ PutItem(r)
    \/ SendAlert(r)
    \/ SendSummary(r)

Next ==
    \/ Import
    \/ \E r \in Scheduled : StartRun(r) \/ lambda_handler(r, Catalogue, MaxFetched)

Spec == Init /\ [][Next]_vars

\* The same runs with every variable set, each aborted run possibly followed
\* by a retry.
InitRetry == InitWith({FullEnv})

NextRetry ==
    \/ Next
    \/ \E r \in Scheduled : RetryRun(r)

SpecRetry == InitRetry /\ [][NextRetry]_vars

(***************************************************************************)
(* Properties.                                                             *)
(***************************************************************************)
key_at(l, i) == str(l.projects[i].id)

Positions(l) == 1..Len(l.projects)

\* The positions of l.projects that pass the filter.
Passing(l) == {i \in Positions(l) : passes_filters(l.projects[i], environ)}

\* The messages of one kind the run delivered.
Delivered(l, kind) == {n \in 1..Len(l.outbox) : l.outbox[n].kind = kind}

\* C1: a run that follows a completed run, against the same fetched
\* postings, the same scores and the table that run left, skips every job
\* the first run recorded (a lookup, then no scoring, no draft, no record
\* and no alert for it), and when it returns it has the same fetched and
\* passed_filters counters, has written no record and has alerted no job
\* the first run recorded.
C1_SecondRunSkipsRecorded ==
    \A r \in Slots :
        LET l == run[r] IN
        l.again =>
            /\ \A i \in Positions(l) :
                   key_at(l, i) \in l.prev.put =>
                       /\ i \notin Tried(l, "score_job")
                       /\ i \notin Tried(l, "draft_proposal")
                       /\ i \notin Tried(l, "put_item")
                       /\ i \notin Tried(l, "alert")
            /\ l.pc = "returned" =>
                   /\ l.projects = l.prev.projects
                   /\ l.total_fetched = l.prev.fetched
                   /\ l.passed_filters = l.prev.passed
                   /\ Tried(l, "put_item") = {}
                   /\ l.shortlisted = 0
                   /\ \A n \in Delivered(l, "alert") :
                          l.outbox[n].project_id \notin l.prev.put
                   /\ \A i \in Passing(l) :
                          key_at(l, i) \in l.prev.put => i \in Done(l, "get_item")

\* C1 witness: a second run has returned after a first run that recorded two
\* jobs, and has looked up every passing posting.
C1_Witness ==
    \E r \in Slots :
        /\ run[r].again
        /\ run[r].pc = "returned"
        /\ Cardinality(run[r].prev.put) = 2
        /\ run[r].passed_filters = 3

\* The call op at position i went through before the n-th call of the log.
Before(l, n, op, i) == \E m \in 1..(n - 1) : l.log[m] = Event(op, i, TRUE)

\* C2: the per-job alert of a job is attempted only after put_item has
\* written that job's record: every alert in a run's log, delivered or not,
\* comes after a successful put_item at the same position, and the table
\* holds an item under that job's key, also after the run has aborted.
C2_RecordBeforeNotify ==
    \A r \in Slots :
        LET l == run[r] IN
        \A n \in 1..Len(l.log) :
            l.log[n].op = "alert" =>
                /\ Before(l, n, "put_item", l.log[n].i)
                /\ get_item(table, key_at(l, l.log[n].i)) # {}

\* C2 witness: the notifier failed on a job's alert, the run has aborted, and
\* the job's item is in the table.
C2_Witness ==
    \E r \in Slots :
        LET l == run[r] IN
        /\ l.pc = "raised"
        /\ l.error = "URLError"
        /\ l.log # <<>>
        /\ l.log[Len(l.log)] = Event("alert", l.i, FALSE)
        /\ get_item(table, key_at(l, l.i)) # {}

\* C3: a run that returns has sent exactly one summary when its shortlisted
\* counter is zero (also when nothing was fetched), with the run's fetched
\* and passed_filters counters in it, and has attempted no summary when the
\* counter is greater than zero.
C3_ZeroMatchSummary ==
    \A r \in Slots :
        LET l == run[r] IN
        l.pc = "returned" =>
            IF l.shortlisted = 0
            THEN /\ Cardinality(Delivered(l, "summary")) = 1
                 /\ Cardinality({n \in 1..Len(l.log) : l.log[n].op = "summary"}) = 1
                 /\ \A n \in Delivered(l, "summary") :
                        /\ l.outbox[n].fetched = l.total_fetched
                        /\ l.outbox[n].passed = l.passed_filters
                        /\ l.outbox[n].fetched = Len(l.projects)
                        /\ l.outbox[n].passed = Cardinality(Passing(l))
            ELSE /\ Delivered(l, "summary") = {}
                 /\ Tried(l, "summary") = {}

\* C3 witness: a run has returned with postings that passed the filter and
\* nothing shortlisted, and its summary is out.
C3_Witness ==
    \E r \in Slots :
        /\ run[r].pc = "returned"
        /\ run[r].shortlisted = 0
        /\ run[r].passed_filters = 2
        /\ run[r].total_fetched = 3
        /\ Delivered(run[r], "summary") # {}

\* The score the AI gave the posting at position i in this run.
ScoreAt(l, i) == CHOOSE s \in Scores : <<i, s>> \in l.scored

\* The positions a run shortlists, from the fetched postings, the keys the
\* table held when the run started and the scores: a position counts when it
\* passes the filter, its key is neither among those keys nor the key of an
\* earlier counted position, and its score is at or above the threshold.
RECURSIVE Qualifying(_, _, _)
Qualifying(l, i, seen) ==
    IF i > Len(l.projects) THEN {}
    ELSE IF /\ passes_filters(l.projects[i], environ)
            /\ key_at(l, i) \notin seen
            /\ \E s \in Scores : <<i, s>> \in l.scored
            /\ ScoreAt(l, i) >= SCORE_THRESHOLD
         THEN {i} \cup Qualifying(l, i + 1, seen \cup {key_at(l, i)})
         ELSE Qualifying(l, i + 1, seen)

\* C4: a run that returns has fetched = the number of postings the fetch
\* returned, passed_filters = the number of them that pass the filter
\* (already-seen ones included), and shortlisted = the number that passed the
\* filter, had no record at lookup time and scored at or above the threshold
\* (a score equal to the threshold counts); shortlisted is also the number of
\* records written and of per-job alerts sent in that run.
C4_CounterCorrectness ==
    \A r \in Slots :
        LET l == run[r] IN
        l.pc = "returned" =>
            /\ l.total_fetched = Len(l.projects)
            /\ l.passed_filters = Cardinality(Passing(l))
            /\ l.shortlisted = Cardinality(Qualifying(l, 1, l.start_keys))
            /\ Done(l, "put_item") = Qualifying(l, 1, l.start_keys)
            /\ Cardinality({n \in 1..Len(l.log) : l.log[n].op = "put_item"})
                   = l.shortlisted
            /\ Done(l, "alert") = Qualifying(l, 1, l.start_keys)
            /\ Cardinality(Delivered(l, "alert")) = l.shortlisted

\* C4 witness: a run has returned with 3 fetched, 2 passing the filter, one
\* of the two already in the table, and the other shortlisted with a score
\* equal to the threshold.
C4_Witness ==
    \E r \in Slots :
        LET l == run[r] IN
        /\ l.pc = "returned"
        /\ l.total_fetched = 3
        /\ l.passed_filters = 2
        /\ l.shortlisted = 1
        /\ \E i \in Passing(l) : key_at(l, i) \in l.start_keys
        /\ \E i \in Done(l, "put_item") : <<i, SCORE_THRESHOLD>> \in l.scored

\* The positions of the run whose score was below the threshold.
ScoredBelow(l) ==
    {i \in Positions(l) : \E s \in Scores : <<i, s>> \in l.scored /\ s < SCORE_THRESHOLD}

C5_NothingKept ==
    /\ \A r \in Slots :
           \A i \in ScoredBelow(run[r]) :
               /\ i \notin Tried(run[r], "draft_proposal")
               /\ i \notin Tried(run[r], "put_item")
               /\ i \notin Tried(run[r], "alert")
    /\ \A k \in hist.low : get_item(table, k) = {}

C5_ScoredAgain ==
    \A r \in Slots :
        LET l == run[r]
            m == run'[r]
        IN  /\ (l.pc = "get_item" /\ project_id(l) \in hist.low /\ m # l) =>
                   \/ m.pc = "raised"
                   \/ m.pc = "score_job" /\ m.i = l.i
            /\ (l.pc = "score_job" /\ m # l) =>
                   Len(m.log) = Len(l.log) + 1 /\ m.log[Len(m.log)].op = "score_job"

\* C5: a posting that passes the filter, has no record and scores below the
\* threshold is not drafted, not recorded and not alerted in that run; a key
\* whose latest score was below the threshold has no item in the table; and
\* whenever such a job is fetched again and passes the filter, the lookup
\* (unless it fails) leads to the scorer being called for it again.
C5_BelowThresholdNoMemory == [](C5_NothingKept) /\ [][C5_ScoredAgain]_vars

\* C5 witness: a run that follows a completed run on the same postings and
\* scores has called the scorer again for a posting that scored below the
\* threshold, and has returned.
C5_Witness ==
    \E r \in Slots :
        /\ run[r].again
        /\ run[r].pc = "returned"
        /\ ScoredBelow(run[r]) \cap Done(run[r], "score_job") # {}

C6_OncePerKey ==
    \A k \in Keys :
        /\ hist.puts[k] <= 1
        /\ Cardinality(get_item(table, k)) = hist.puts[k]

C6_ItemsKept == \A it \in table : it \in table'

\* C6: across runs that do not overlap, completed or aborted, put_item
\* writes at most once under any key (also when a key occurs more than once
\* in one fetched sequence), and an item of the table is never replaced or
\* removed.
C6_AtMostOneRecord == [](C6_OncePerKey) /\ [][C6_ItemsKept]_vars

\* C6 witness: one fetched sequence holds the same key at two positions that
\* pass the filter; the first was recorded, the second was looked up and
\* skipped.
C6_Witness ==
    \E r \in Slots :
        LET l == run[r] IN
        \E i, j \in Positions(l) :
            /\ i < j
            /\ key_at(l, i) = key_at(l, j)
            /\ i \in Done(l, "put_item")
            /\ j \in Done(l, "get_item")
            /\ j \notin Tried(l, "score_job")
            /\ l.i > j

\* C7 as claimed: whenever a run has aborted on an error, no notification of
\* any kind has been sent during that run.
C7_AbortSendsNothing ==
    \A r \in Slots : run[r].pc = "raised" => run[r].outbox = <<>>

\* C7, amended: whenever a run has aborted on an error, no summary has been
\* sent in that run and no notification has been sent for the job at which
\* it aborted; all that was sent are the per-job alerts of jobs recorded at
\* earlier positions of the fetched sequence, and nothing at all when the run
\* aborted at the fetch or at the summary.
C7_AbortSendsNoSummary ==
    \A r \in Slots :
        LET l == run[r] IN
        l.pc = "raised" =>
            /\ Done(l, "summary") = {}
            /\ \A n \in 1..Len(l.outbox) : l.outbox[n].kind = "alert"
            /\ Cardinality(Delivered(l, "alert")) = Cardinality(Done(l, "alert"))
            /\ \A i \in Done(l, "alert") : i < l.i /\ i \in Done(l, "put_item")
            /\ (l.i = 0 \/ Tried(l, "summary") # {}) => l.outbox = <<>>

\* C7 witness: a run has aborted at the scoring of a job after the alert of
\* an earlier job was delivered.
C7_Witness ==
    \E r \in Slots :
        LET l == run[r] IN
        /\ l.pc = "raised"
        /\ l.error = "ScoreError"
        /\ Delivered(l, "alert") # {}

C9_ConfigFatalBeforeRun ==
    (\E n \in RequiredVars : environ[n] = Unset) =>
        \A r \in Slots : run[r].log = <<>>

\* C10 as claimed: a posting with a missing or null field never makes
\* lambda_handler raise; in particular a shortlisted posting with no title
\* key raises no KeyError.
C10_IncompletePostingNeverRaises ==
    \A r \in Slots :
        ~(run[r].pc = "raised" /\ run[r].error = "KeyError: 'title'")

\* The run is about to call the scorer for position p, or has called it.
ScoresPosition(l, p) ==
    \/ p \in Tried(l, "score_job")
    \/ l.pc = "score_job" /\ l.i = p

\* C11: a run that aborted at a job's store lookup, scoring (an unusable
\* score response included) or drafting has written no record for that job:
\* after a scoring or drafting failure the table holds no item under its key,
\* after a lookup failure none that was not there before the lookup.  The
\* run that follows on the same postings finds no record at that job's
\* lookup and calls the scorer for it again.
C11_NoRecordAfterEarlyFailure ==
    \A r \in Slots :
        LET l == run[r]
            p == l.prev.at
        IN  /\ (AbortedAtJob(l) /\ FailedOp(l) \in {"score_job", "draft_proposal"}) =>
                   /\ l.i \notin Tried(l, "put_item")
                   /\ get_item(table, key_at(l, l.i)) = {}
                   /\ hist.puts[key_at(l, l.i)] = 0
            /\ (AbortedAtJob(l) /\ FailedOp(l) = "get_item") =>
                   /\ l.i \notin Tried(l, "put_item")
                   /\ (get_item(table, key_at(l, l.i)) # {} =>
                          key_at(l, l.i) \in l.start_keys \cup PutKeys(l))
            /\ (l.retry /\ l.i >= 1
                         /\ l.prev.op \in {"score_job", "draft_proposal"}) =>
                   /\ l.projects = l.prev.projects
                   /\ key_at(l, p) \notin l.start_keys
                   /\ passes_filters(l.projects[p], environ)
                   /\ (p \in Done(l, "get_item") => ScoresPosition(l, p))
                   /\ (l.pc = "returned" => p \in Done(l, "score_job"))
            /\ (l.retry /\ l.i >= 1
                         /\ l.prev.op = "get_item") =>
                   ((p \in Done(l, "get_item") /\ key_at(l, p) \notin l.start_keys)
                       => ScoresPosition(l, p))

\* C11 witness: the drafter failed for a job, and the next run, on the same
\* postings, has scored that job again and returned.
C11_Witness ==
    \E r \in Slots :
        LET l == run[r] IN
        /\ l.retry
        /\ l.prev.op = "draft_proposal"
        /\ l.pc = "returned"
        /\ l.prev.at \in Done(l, "score_job")
        /\ l.prev.at \in Done(l, "put_item")

\* The calls the loop body can make for one job.
JobCalls == {"get_item", "score_job", "draft_proposal", "put_item", "alert"}

\* The run has made none of the calls ops (failed ones included) for the job
\* at position i.
NoCallAt(l, i, ops) ==
    \A n \in 1..Len(l.log) : l.log[n].i # i \/ l.log[n].op \notin ops

\* The lookup at position i went through and found an item: one that was in
\* the table when the run started, or one the run put at an earlier position.
Seen(l, i) ==
    /\ \/ key_at(l, i) \in l.start_keys
       \/ \E j \in 1..(i - 1) : key_at(l, j) = key_at(l, i) /\ j \in Done(l, "put_item")
    /\ i \in Done(l, "get_item")

\* C12: for a job that fails the filter the run makes no call at all
\* (lookup, scorer, drafter, put, alert) and goes from the loop head straight
\* to the next job; for a job whose lookup finds an item the lookup is the
\* only call, and the run has gone on to the next job.
C12_FailedGateNoSideEffects ==
    \A r \in Slots :
        LET l == run[r] IN
        \A i \in Positions(l) :
            /\ \/ /\ NoCallAt(l, i, JobCalls)
                  /\ l.i = i => l.pc = "for"
               \/ passes_filters(l.projects[i], environ)
            /\ Seen(l, i) =>
                   /\ NoCallAt(l, i, JobCalls \ {"get_item"})
                   /\ l.i > i
                   /\ \A n \in Delivered(l, "alert") :
                          l.outbox[n].project_id = key_at(l, i) =>
                              \E j \in Done(l, "alert") : j # i /\ key_at(l, j) = key_at(l, i)

\* C12 witness: a returned run whose first job failed the filter, whose
\* second was already in the store, and whose third was looked up and scored.
C12_Witness ==
    \E r \in Slots :
        LET l == run[r] IN
        /\ l.pc = "returned"
        /\ Len(l.projects) = 3
        /\ 1 \notin Passing(l)
        /\ Seen(l, 2)
        /\ 3 \in Done(l, "score_job")

\* ---- Pagination: a marketplace that holds more pages than the client asks for ----

\* What the marketplace serves: a posting that goes through the pipeline and
\* one that fails the filter.
Shelf == {Complete(1), LowBudget(2)}

\* Enough postings for MAX_PAGES non-empty pages, one of them with two
\* postings, and one posting more.
PageSupply == MAX_PAGES + 2

InitPages == InitWith({FullEnv})

NextPages ==
    \/ Import
    \/ \E r \in Scheduled : StartRun(r) \/ lambda_handler(r, Shelf, PageSupply)

SpecPages == InitPages /\ [][NextPages]_vars

\* The page requests the run has issued, failed ones included.
Requests(l) == Cardinality({n \in 1..Len(l.log) : l.log[n].op = "request"})

\* A step in which run r issues a page request.
RequestStep(r) == Requests(run'[r]) = Requests(run[r]) + 1

\* What a page request does to the run (the bound, the early stop, the
\* concatenation).
PagingStep(r) ==
    LET l == run[r]
        m == run'[r]
    IN  /\ RequestStep(r) =>
               /\ l.pc = "request"
               /\ Requests(l) < MAX_PAGES
               /\ \E page \in SeqsUpTo(Shelf, PageSupply - Len(l.projects)) :
                      m.projects = l.projects \o page
               /\ m.projects = l.projects => m.pc \in {"for", "raised"}
               /\ (m.projects # l.projects /\ Requests(m) < MAX_PAGES) => m.pc = "request"
               /\ m.pc = "for" => m.total_fetched = Len(m.projects)
        /\ (m.projects # l.projects /\ ~RequestStep(r)) =>
               (m.pc = "fetch_all_projects" /\ m.projects = <<>>)

\* C13: a run issues at most MAX_PAGES page requests however many postings
\* the marketplace holds; a request that brings no postings is the run's
\* last; every other request appends its page to what was fetched before,
\* and paging goes on after a page of any size until MAX_PAGES requests are
\* made; what the loop is given is everything fetched, in that order.
C13_PaginationBound ==
    /\ [](\A r \in Slots : Requests(run[r]) <= MAX_PAGES)
    /\ [][\A r \in Slots : PagingStep(r)]_vars

\* C13 witness: MAX_PAGES requests, each with a non-empty page and one with
\* more than one posting, and the run went on to the loop with no further
\* request although the marketplace held more.
C13_Witness ==
    \E r \in Slots :
        LET l == run[r] IN
        /\ l.pc = "for"
        /\ Requests(l) = MAX_PAGES
        /\ Len(l.projects) > MAX_PAGES
        /\ Len(l.projects) < PageSupply
        /\ l.total_fetched = Len(l.projects)

\* ---- The filter on postings of every shape ----

\* Titles and descriptions: missing, null, empty, a keyword in other case,
\* a keyword inside other text, part of a keyword.
Texts ==
    {Absent, None, Str(<<>>), Str(<<"P", "y">>), Str(<<"g", "P", "Y">>), Str(<<"p">>)}

Budgets ==
    {Absent, None} \cup
    {Obj([minimum |-> m]) :
        m \in {Absent, None, Num(0), Num(MIN_BUDGET - 1), Num(MIN_BUDGET), Num(MIN_BUDGET + 1)}}

Owners ==
    {Absent, None} \cup
    {Obj([payment_verified |-> p]) : p \in {Absent, None, Bool(TRUE), Bool(FALSE)}}

Shapes ==
    {[id |-> 1, title |-> t, description |-> d, budget |-> b, owner |-> o,
      submitdate |-> Num(1)] : t \in Texts, d \in Texts, b \in Budgets, o \in Owners}

\* REQUIRE_PAYMENT_VERIFIED unset, "true" in either case, and "false".
FilterEnvs ==
    {[FullEnv EXCEPT !["REQUIRE_PAYMENT_VERIFIED"] = v] : v \in {Unset, "true", "TRUE", "false"}}

InitFilter == InitWith(FilterEnvs)

\* One invocation, served at most one posting of any shape.
NextFilter ==
    \/ Import
    \/ \E r \in Scheduled :
          \/ run[r].pc = "idle" /\ StartRun(r)
          \/ lambda_handler(r, Shapes, 1)

SpecFilter == InitFilter /\ [][NextFilter]_vars

\* The text of a title or description, empty when it is missing or null.
TextOf(x) == IF x.t = "str" THEN x.v ELSE <<>>

\* k occurs in text when case is ignored.
Occurs(k, text) ==
    \E off \in 0..(Len(text) - Len(k)) :
        \A j \in 1..Len(k) : lower_char(text[off + j]) = lower_char(k[j])

\* The three conditions as the filter is described.
FilterRule(project, env) ==
    /\ \E k \in KEYWORDS :
          Occurs(k, TextOf(project.title)) \/ Occurs(k, TextOf(project.description))
    /\ project.budget.t = "obj"
    /\ project.budget.v.minimum.t = "num"
    /\ project.budget.v.minimum.v >= MIN_BUDGET
    /\ \/ ~REQUIRE_PAYMENT_VERIFIED(env)
       \/ /\ project.owner.t = "obj"
          /\ project.owner.v.payment_verified = Bool(TRUE)

\* The run has applied the filter to its one posting.
Filtered(l) == Len(l.projects) = 1 /\ l.i >= 1 /\ ~(l.i = 1 /\ l.pc = "for")

\* C14: passes_filters is true of a posting exactly when a keyword occurs,
\* case ignored, in its title or description (missing or null read as
\* empty), its budget minimum is present and at least MIN_BUDGET, and
\* payment verification is not required or the owner's flag is present and
\* true; the run counts the posting as passed exactly then.
C14_FilterSemantics ==
    \A r \in Slots :
        LET l == run[r] IN
        Len(l.projects) = 1 =>
            /\ passes_filters(l.projects[1], environ) <=> FilterRule(l.projects[1], environ)
            /\ Filtered(l) =>
                   (l.passed_filters = 1 <=> FilterRule(l.projects[1], environ))

\* C14 witness: verification is not required, and a posting with a null
\* title, a keyword in capitals inside its description, the minimum budget
\* and an owner flag that is false has passed the filter.
C14_Witness ==
    \E r \in Slots :
        LET l == run[r] IN
        /\ Filtered(l)
        /\ environ["REQUIRE_PAYMENT_VERIFIED"] = "false"
        /\ l.projects[1].title = None
        /\ l.projects[1].description = Str(<<"g", "P", "Y">>)
        /\ l.projects[1].budget = Obj([minimum |-> Num(MIN_BUDGET)])
        /\ l.projects[1].owner = Obj([payment_verified |-> Bool(FALSE)])
        /\ l.passed_filters = 1

\* A page request of the run failed.
FetchFailed(l) == \E n \in 1..Len(l.log) : l.log[n].op = "request" /\ ~l.log[n].ok

\* C15: a run in which a page request failed, the first or a later one, has
\* aborted without entering the loop: its only calls are page requests (no
\* lookup, put, scorer or drafter call), it has sent no message, counted no
\* job, and the table holds the keys it held when the run started.
C15_FetchFailureProcessesNothing ==
    \A r \in Slots :
        LET l == run[r] IN
        FetchFailed(l) =>
            /\ l.pc = "raised"
            /\ l.i = 0
            /\ \A n \in 1..Len(l.log) : l.log[n].op = "request"
            /\ l.outbox = <<>>
            /\ l.passed_filters = 0 /\ l.shortlisted = 0
            /\ {it.project_id : it \in table} = l.start_keys

\* C15 witness: the first page brought a posting that passes the filter,
\* the request for the second page failed, and the run aborted.
C15_Witness ==
    \E r \in Slots :
        LET l == run[r] IN
        /\ l.pc = "raised"
        /\ l.log = <<Event("request", 0, TRUE), Event("request", 1, FALSE)>>
        /\ Passing(l) # {}

\* Per-job alerts delivered and records written by the run so far.
AlertsSent(l) == Cardinality(Delivered(l, "alert"))

RecordsWritten(l) ==
    Cardinality({n \in 1..Len(l.log) : l.log[n].op = "put_item" /\ l.log[n].ok})

\* C16: in every state of a run, alerts sent <= records written <=
\* shortlisted <= passed_filters <= total_fetched, and shortlisted is at most
\* one more than the records written.
C16_CounterChain ==
    \A r \in Slots :
        LET l == run[r] IN
        /\ AlertsSent(l) <= RecordsWritten(l)
        /\ RecordsWritten(l) <= l.shortlisted
        /\ l.shortlisted <= l.passed_filters
        /\ l.passed_filters <= l.total_fetched
        /\ l.shortlisted - RecordsWritten(l) <= 1

\* C16 witness: three postings fetched, two passed the filter, both are
\* shortlisted, and only the first of them is recorded and alerted yet.
C16_Witness ==
    \E r \in Slots :
        LET l == run[r] IN
        /\ Running(r)
        /\ l.total_fetched = 3
        /\ l.passed_filters = 2
        /\ l.shortlisted = 2
        /\ RecordsWritten(l) = 1
        /\ AlertsSent(l) = 1

\* C17: over all the runs made one after the other, returned or aborted,
\* whatever they fetch, send_telegram_message is called for a per-job alert
\* at most once per job identifier.
C17_AtMostOneAlertPerJob ==
    \A k \in Keys : hist.alerts[k] <= 1

\* C17 witness: a job was alerted in an earlier run; a later run fetched a
\* posting with its identifier that passes the filter, looked it up and
\* returned.
C17_Witness ==
    \E r \in Slots :
        LET l == run[r] IN
        /\ l.pc = "returned"
        /\ \E i \in Passing(l) :
              /\ key_at(l, i) \in l.start_keys
              /\ i \in Done(l, "get_item")
              /\ hist.alerts[key_at(l, i)] = 1

\* C18: when the notifier fails on a job's alert the run has aborted with
\* the job's record in the table and no alert delivered for it; records stay,
\* so a run makes no scorer, drafter, put or alert call for a job whose key
\* had a record when it started and delivers no alert for such a key; the
\* run that follows the failed alert on the same postings finds the record,
\* and the one attempted alert stays the only one.
C18_LostAlertNotRecovered ==
    \A r \in Slots :
        LET l == run[r]
            p == l.prev.at
        IN  /\ (AbortedAtJob(l) /\ FailedOp(l) = "alert") =>
                   /\ l.i \in Done(l, "put_item")
                   /\ l.i \notin Done(l, "alert")
                   /\ get_item(table, key_at(l, l.i)) # {}
            /\ \A k \in l.start_keys : get_item(table, k) # {}
            /\ \A i \in Positions(l) :
                   key_at(l, i) \in l.start_keys =>
                       NoCallAt(l, i, JobCalls \ {"get_item"})
            /\ \A n \in Delivered(l, "alert") : l.outbox[n].project_id \notin l.start_keys
            /\ (l.retry /\ l.i >= 1 /\ l.prev.op = "alert") =>
                   /\ key_at(l, p) \in l.start_keys
                   /\ hist.alerts[key_at(l, p)] = 1

\* C18 witness: the alert of a recorded job failed; the next run fetched the
\* same postings, looked the job up, skipped it and returned with nothing
\* shortlisted.
C18_Witness ==
    \E r \in Slots :
        LET l == run[r] IN
        /\ l.retry
        /\ l.prev.op = "alert"
        /\ l.pc = "returned"
        /\ l.prev.at \in Done(l, "get_item")
        /\ l.shortlisted = 0
        /\ Delivered(l, "summary") # {}

\* ---- Overlapping invocations on the same table ----

\* The marketplace serves at most one posting, the same to every run.
OnePosting == {Complete(1)}

InitOverlap == InitWith({FullEnv})

\* Any invocation slot may start and take steps at any time.
NextOverlap ==
    \/ Import
    \/ \E r \in Slots : StartRun(r) \/ lambda_handler(r, OnePosting, 1)

SpecOverlap == InitOverlap /\ [][NextOverlap]_vars

\* At most one run is active.
OneAtATime == \A r, q \in Slots : (Running(r) /\ Running(q)) => r = q

\* No key written more than once or alerted more than once.
OncePerJob == \A k \in Keys : hist.puts[k] <= 1 /\ hist.alerts[k] <= 1

\* C19: in every behaviour in which at most one run is active at a time no
\* key is ever written or alerted twice; whatever the interleaving, a key
\* has at most one item (a second write replaces the first), and a run
\* writes and alerts a key at most once.
C19_SingleRunAssumption ==
    /\ ([]OneAtATime) => ([]OncePerJob)
    /\ [](\A k \in Keys :
            /\ Cardinality(get_item(table, k)) <= 1
            /\ hist.puts[k] <= Cardinality(Slots)
            /\ hist.alerts[k] <= hist.puts[k])

\* C19 witness: two overlapping runs both looked up the same job, found
\* nothing, wrote it and delivered its alert: two writes under one key, one
\* item, two alerts.
C19_Witness ==
    /\ \A r \in Slots :
          /\ run[r].start_keys = {}
          /\ 1 \in Done(run[r], "get_item")
          /\ 1 \in Done(run[r], "put_item")
          /\ 1 \in Done(run[r], "alert")
          /\ key_at(run[r], 1) = "1"
    /\ hist.puts["1"] = 2
    /\ hist.alerts["1"] = 2
    /\ Cardinality(get_item(table, "1")) = 1

====
